---- MODULE Spec2Model ----
(***************************************************************************)
(* Model of depth_image_proc::PointCloudXyzlNodelet                        *)
(* (src/depth_image_proc/src/nodelets/point_cloud_xyzl.cpp).               *)
(*                                                                         *)
(* Two specifications share the module:                                    *)
(*   Spec      the per-triple pipeline: imageCb and convert, step by step  *)
(*   SpecConn  the connection lifecycle: onInit, connectCb and the         *)
(*             consumers of the output topic, thread by thread             *)
(*                                                                         *)
(* Numbers: a float or double is an exact rational [nan, n, d] with d >= 0 *)
(* (d = 0, n # 0 is an infinity); rounding is not modelled.                *)
(***************************************************************************)
EXTENDS Integers, Sequences, FiniteSets, TLC

\* ------------------------------------------------------------------ bounds

\* Largest width and height of a delivered image.
MaxDim == 2
\* Synchronized triples delivered in one run.
MaxTriples == 2
\* Consumers that can be attached to the output topic at once.
MaxConsumers == 2
\* Attach/detach notifications in one run.
MaxNotifs == 3
\* Threads of the host that may run connectCb concurrently.
NumThreads == 2

\* ----------------------------------------------------------------- numbers

Abs(i) == IF i < 0 THEN -i ELSE i

Sign(i) == IF i < 0 THEN -1 ELSE IF i > 0 THEN 1 ELSE 0

Min(a, b) == IF a < b THEN a ELSE b

RECURSIVE GCD(_, _)
GCD(a, b) == IF b = 0 THEN a ELSE GCD(b, a % b)

NaN == [nan |-> TRUE, n |-> 0, d |-> 1]

\* n/d in lowest terms; 0/0 is NaN, n/0 an infinity.
Fin(n, d) ==
  IF d = 0
    THEN IF n = 0 THEN NaN ELSE [nan |-> FALSE, n |-> Sign(n), d |-> 0]
    ELSE LET s == Sign(d)
             g == GCD(Abs(n), Abs(d))
         IN  [nan |-> FALSE, n |-> (s * n) \div g, d |-> Abs(d) \div g]

IsNaN(a) == a.nan

FMul(a, b) == IF a.nan \/ b.nan THEN NaN ELSE Fin(a.n * b.n, a.d * b.d)

FDiv(a, b) == IF a.nan \/ b.nan THEN NaN ELSE Fin(a.n * b.d, a.d * b.n)

FSub(a, b) ==
  IF a.nan \/ b.nan THEN NaN
  ELSE IF a.d = 0 /\ b.d = 0 THEN (IF a.n = b.n THEN NaN ELSE a)
  ELSE IF a.d = 0 THEN a
  ELSE IF b.d = 0 THEN Fin(-b.n, 0)
  ELSE Fin(a.n * b.d - b.n * a.d, a.d * b.d)

\* Conversion of a finite non-negative value to int: truncation.
ToInt(a) == a.n \div a.d

\* Conversion of a signed 32-bit value to uint32_t, the value mod 2^32, kept
\* as its two 16-bit halves: the value is hi * 2^16 + lo.
ToUint32(i) == [hi |-> (i \div 65536) % 65536, lo |-> i % 65536]

\* --------------------------------------------------------------- encodings

TYPE_16UC1 == "16UC1"
TYPE_32FC1 == "32FC1"
TYPE_32SC1 == "32SC1"
TYPE_8UC1 == "8UC1"
MONO8 == "mono8"

\* Encodings a depth frame arrives with: the two supported ones and one other.
DepthEncodings == {TYPE_16UC1, TYPE_32FC1, MONO8}

\* Encodings a label frame arrives with: the two native ones, one more
\* single-channel one, a three-channel one and an unknown one.
LabelEncodings == {TYPE_32SC1, TYPE_8UC1, MONO8, "bgr8", "bogus"}

SignedEncodings == {TYPE_32SC1}

FrameIds == {"camera", "other"}

\* ------------------------------------------------------------------ inputs

Pixels(W, H) == (0 .. H - 1) \X (0 .. W - 1)

DepthPatterns == {"valid", "holeFirst", "holeLast"}

LabelPatterns == {"ids", "negFirst", "negLast"}

\* A depth sample of a depth frame: 16UC1 holds millimetres with 0 for "no
\* reading", 32FC1 holds metres with NaN or 0 for "no reading".
DepthSample(enc, W, H, pat, r, c) ==
  IF pat = "holeFirst" /\ r = 0 /\ c = 0
    THEN (IF enc = TYPE_32FC1 THEN NaN ELSE Fin(0, 1))
  ELSE IF pat = "holeLast" /\ r = H - 1 /\ c = W - 1
    THEN Fin(0, 1)
  ELSE IF enc = TYPE_32FC1
    THEN Fin(2 + r * W + c, 2)
    ELSE Fin(1000 + 500 * (r * W + c), 1)

\* A label sample: every pixel its own id, and in the "neg" patterns one
\* pixel that is -1 in a signed encoding (the largest id in an unsigned one).
LabelSample(enc, W, H, pat, r, c) ==
  IF \/ pat = "negFirst" /\ r = 0 /\ c = 0
     \/ pat = "negLast" /\ r = H - 1 /\ c = W - 1
    THEN (IF enc \in SignedEncodings THEN -1 ELSE 255)
    ELSE 1 + r * W + c

DepthImage(frame, enc, W, H, pat) ==
  [frame_id |-> frame, encoding |-> enc, width |-> W, height |-> H,
   data |-> [p \in Pixels(W, H) |-> DepthSample(enc, W, H, pat, p[1], p[2])]]

LabelImage(frame, enc, W, H, pat) ==
  [frame_id |-> frame, encoding |-> enc, width |-> W, height |-> H,
   data |-> [p \in Pixels(W, H) |-> LabelSample(enc, W, H, pat, p[1], p[2])]]

\* Calibration messages of a calibrated camera: P[0], P[5], P[2], P[6].
CameraInfos ==
  { [fx |-> Fin(100, 1), fy |-> Fin(100, 1), cx |-> Fin(2, 1), cy |-> Fin(3, 2)],
    [fx |-> Fin(200, 1), fy |-> Fin(150, 1), cx |-> Fin(1, 2), cy |-> Fin(1, 1)] }

NoImage ==
  [frame_id |-> "", encoding |-> "", width |-> 0, height |-> 0, data |-> << >>]

NoInfo == [fx |-> NaN, fy |-> NaN, cx |-> NaN, cy |-> NaN]

NoCloud == [frame_id |-> "", width |-> 0, height |-> 0, points |-> << >>]

\* --------------------------------------------------------------- libraries

\* cv_bridge: the encodings it knows, and their channel counts.
CvKnown(enc) == enc \in {TYPE_16UC1, TYPE_32FC1, TYPE_32SC1, TYPE_8UC1, MONO8, "bgr8"}

NumChannels(enc) == IF enc = "bgr8" THEN 3 ELSE 1

\* cv_bridge::toCvShare(msg, msg->encoding) throws cv_bridge::Exception.
ToCvShareThrows(msg) == ~CvKnown(msg.encoding)

\* cv_bridge::toCvCopy(msg, dst) throws cv_bridge::Exception: the source is
\* unknown, or the channel counts differ.
ToCvCopyThrows(msg, dst) ==
  \/ ~CvKnown(msg.encoding)
  \/ msg.encoding # dst /\ NumChannels(msg.encoding) # NumChannels(dst)

\* cv::saturate_cast<int>: what Mat::convertTo does to each sample.
SaturateInt32(i) ==
  IF i > 2147483647 THEN 2147483647
  ELSE IF i < -2147483647 - 1 THEN -2147483647 - 1 ELSE i

\* cv_bridge::toCvCopy(msg, dst)->toImageMsg(): same grid, every sample
\* converted to the destination type (an integer sample keeps its value).
ToCvCopy(msg, dst) ==
  [msg EXCEPT
     !.encoding = dst,
     !.data = [p \in DOMAIN msg.data |-> SaturateInt32(msg.data[p])]]

\* image.rowRange(0, rows) or cv::resize throws cv::Exception: the range
\* leaves the image, or the cropped image is empty.
ResizeThrows(msg, rows) == rows > msg.height \/ rows <= 0

\* Mutant of ResizeNearest: the rows are picked from the whole image, the
\* crop forgotten.
ResizeNearest_NoCrop(msg, rows, W, H) ==
  [msg EXCEPT
     !.width = W,
     !.height = H,
     !.data = [p \in Pixels(W, H) |->
                 msg.data[<< Min((p[1] * msg.height) \div H, msg.height - 1),
                             Min((p[2] * msg.width) \div W, msg.width - 1) >>]]]

\* cv::resize(image.rowRange(0, rows), ., Size(W, H), INTER_NEAREST).
ResizeNearest(msg, rows, W, H) ==
  [msg EXCEPT
     !.width = W,
     !.height = H,
     !.data = [p \in Pixels(W, H) |->
                 msg.data[<< Min((p[1] * rows) \div H, rows - 1),
                             Min((p[2] * msg.width) \div W, msg.width - 1) >>]]]

\* image_geometry::PinholeCameraModel::fromCameraInfo.
FromCameraInfo(info) == info

\* DepthTraits<T>::valid.
DepthValid(T, depth) ==
  IF T = "uint16_t" THEN depth.n # 0
  ELSE ~depth.nan /\ depth.d # 0 /\ depth.n # 0

\* DepthTraits<T>::toMeters.
ToMeters(T, depth) ==
  IF T = "uint16_t" THEN FMul(depth, Fin(1, 1000)) ELSE depth

\* ------------------------------------------------------------------- state

VARIABLES
  \* imageCb: where the callback stands, and its arguments
  pc, depth_msg, label_msg_in, info_msg,
  \* the member model_, and imageCb's locals label_msg and cloud_msg
  model_, label_msg, cloud_msg,
  \* convert: the instantiation chosen and the row the outer loop stands at
  variant, row,
  \* what the current imageCb call did: toCvCopy entered, clouds handed to
  \* pub_point_cloud_.publish, the error it logged
  convAttempted, sent, logged,
  \* history: triples delivered, triples meeting the acceptance conditions,
  \* clouds published
  nDelivered, nAccepted, nPublished,
  \* onInit and the output topic
  initPc, advertised, pub_point_cloud_, numSubscribers,
  \* connect notifications raised and taken, and the connectCb threads
  nNotified, nTaken, cbPc, cbSeq, cbDone,
  \* the mutex and the three subscriptions
  connect_mutex_, sub_depth_, sub_label_, sub_info_

pipeVars ==
  << pc, depth_msg, label_msg_in, info_msg, model_, label_msg, cloud_msg,
     variant, row, convAttempted, sent, logged, nDelivered, nAccepted,
     nPublished >>

connVars ==
  << initPc, advertised, pub_point_cloud_, numSubscribers, nNotified, nTaken,
     cbPc, cbSeq, cbDone, connect_mutex_, sub_depth_, sub_label_, sub_info_ >>

vars == << pipeVars, connVars >>

Threads == 1 .. NumThreads

NoVariant == [T |-> "", T2 |-> ""]

InitPipe ==
  /\ pc = "idle"
  /\ depth_msg = NoImage
  /\ label_msg_in = NoImage
  /\ info_msg = NoInfo
  /\ model_ = NoInfo
  /\ label_msg = NoImage
  /\ cloud_msg = NoCloud
  /\ variant = NoVariant
  /\ row = 0
  /\ convAttempted = FALSE
  /\ sent = << >>
  /\ logged = "none"
  /\ nDelivered = 0
  /\ nAccepted = 0
  /\ nPublished = 0

InitConn ==
  /\ initPc = "start"
  /\ advertised = FALSE
  /\ pub_point_cloud_ = FALSE
  /\ numSubscribers = 0
  /\ nNotified = 0
  /\ nTaken = 0
  /\ cbPc = [t \in Threads |-> "idle"]
  /\ cbSeq = [t \in Threads |-> 0]
  /\ cbDone = {}
  /\ connect_mutex_ = 0
  /\ sub_depth_ = FALSE
  /\ sub_label_ = FALSE
  /\ sub_info_ = FALSE

Init == InitPipe /\ InitConn

\* ----------------------------------------------------------------- imageCb

\* Line 166: the label image has to be resized.
NeedsResize(d, l) == d.width # l.width \/ d.height # l.height

\* Line 171: ratio, the depth width over the label width.
Ratio(d, l) == Fin(d.width, l.width)

\* Lines 168-179: info_msg_tmp, the calibration with K and P scaled by ratio.
ScaleInfo(i, ratio) ==
  [fx |-> FMul(i.fx, ratio), fy |-> FMul(i.fy, ratio),
   cx |-> FMul(i.cx, ratio), cy |-> FMul(i.cy, ratio)]

\* Line 195: depth_msg->height / ratio, passed to rowRange as an int.
CropRows(d, ratio) == ToInt(FDiv(Fin(d.height, 1), ratio))

\* Mutant of UpdateModel: the camera model is read from the calibration only
\* while it is uninitialized, and otherwise kept from the triple before.
UpdateModel_Stale(i, d, l) ==
  IF NeedsResize(d, l)
    THEN FromCameraInfo(ScaleInfo(i, Ratio(d, l)))
    ELSE IF model_ = NoInfo THEN FromCameraInfo(i) ELSE model_

\* Lines 162-180: model_ once imageCb has passed the resize check.
UpdateModel(i, d, l) ==
  LET first == FromCameraInfo(i)
  IN  IF NeedsResize(d, l)
        THEN FromCameraInfo(ScaleInfo(i, Ratio(d, l)))
        ELSE first

\* Line 207: the condition that sends the label image to toCvCopy.
NeedsConversion(enc) == enc # TYPE_32SC1 \/ enc # TYPE_8UC1

\* Mutant of AllocateCloud: the grid is taken from the label image received.
AllocateCloud_LabelDims(d, l) ==
  [frame_id |-> d.frame_id, width |-> l.width, height |-> l.height,
   points |-> << >>]

\* Lines 221-233: the cloud message as allocated, no point written yet.
AllocateCloud(d, l) ==
  [frame_id |-> d.frame_id, width |-> d.width, height |-> d.height,
   points |-> << >>]

\* Lines 236-260: the instantiation of convert the encodings select.
Dispatch(depthEnc, labelEnc) ==
  IF depthEnc = TYPE_16UC1 /\ labelEnc = TYPE_32SC1
    THEN [T |-> "uint16_t", T2 |-> "int32_t"]
  ELSE IF depthEnc = TYPE_16UC1 /\ labelEnc = MONO8
    THEN [T |-> "uint16_t", T2 |-> "uint8_t"]
  ELSE IF depthEnc = TYPE_32FC1 /\ labelEnc = TYPE_32SC1
    THEN [T |-> "float", T2 |-> "int32_t"]
  ELSE IF depthEnc = TYPE_32FC1 /\ labelEnc = MONO8
    THEN [T |-> "float", T2 |-> "uint8_t"]
  ELSE NoVariant

\* Line 296: a label sample read as T2.
ReadLabel(T2, sample) == IF T2 = "uint8_t" THEN sample % 256 ELSE sample

\* Mutant of InvalidMeasurement: the label is not looked at.
InvalidMeasurement_DepthOnly(T, depth, label) == ~DepthValid(T, depth)

\* Line 298: the measurement is invalid.
InvalidMeasurement(T, depth, label) == ~DepthValid(T, depth) \/ label < 0

\* Mutant of LabelField: a negative label is replaced by 0.
LabelField_Sentinel(label) == IF label < 0 THEN ToUint32(0) ELSE ToUint32(label)

\* Line 311: the label written to the cloud.
LabelField(label) == ToUint32(label)

\* Lines 270-278 and 295-311: the point written for pixel (u, v).
ConvertPixel(var, d, l, m, u, v) ==
  LET center_x == m.cx
      center_y == m.cy
      unit_scaling == ToMeters(var.T, Fin(1, 1))
      constant_x == FDiv(unit_scaling, m.fx)
      constant_y == FDiv(unit_scaling, m.fy)
      bad_point == NaN
      depth == d.data[<< v, u >>]
      label == ReadLabel(var.T2, l.data[<< v, u >>])
  IN  IF InvalidMeasurement(var.T, depth, label)
        THEN [x |-> bad_point, y |-> bad_point, z |-> bad_point,
              label |-> LabelField(label)]
        ELSE [x |-> FMul(FMul(FSub(Fin(u, 1), center_x), depth), constant_x),
              y |-> FMul(FMul(FSub(Fin(v, 1), center_y), depth), constant_y),
              z |-> ToMeters(var.T, depth),
              label |-> LabelField(label)]

\* Line 291: the outer loop of convert has run to its end.
LoopDone == row >= cloud_msg.height

\* The conditions under which a triple is accepted: equal frame ids, a label
\* image cv_bridge can read and convert, a supported depth encoding.
Accepted(d, l) ==
  /\ d.frame_id = l.frame_id
  /\ ~ToCvShareThrows(l)
  /\ ~ToCvCopyThrows(l, TYPE_32SC1)
  /\ d.encoding \in {TYPE_16UC1, TYPE_32FC1}

\* Lines 149-204: imageCb is called with a synchronized triple and runs up to
\* the encoding check: the frame id guard, the camera model, the resize.
ImageCbEnter(d, l, i) ==
  /\ pc = "idle"
  /\ nDelivered < MaxTriples
  /\ depth_msg' = d
  /\ label_msg_in' = l
  /\ info_msg' = i
  /\ nDelivered' = nDelivered + 1
  /\ nAccepted' = nAccepted + (IF Accepted(d, l) THEN 1 ELSE 0)
  /\ UNCHANGED << cloud_msg, variant, row, convAttempted, sent, nPublished >>
  /\ IF d.frame_id # l.frame_id
       THEN /\ logged' = "frame_id"
            /\ pc' = "returned"
            /\ label_msg' = NoImage
            /\ UNCHANGED model_
       ELSE /\ model_' = UpdateModel(i, d, l)
            /\ IF ~NeedsResize(d, l)
                 THEN /\ label_msg' = l
                      /\ logged' = "none"
                      /\ pc' = "normalize"
               ELSE IF ToCvShareThrows(l)
                 THEN /\ label_msg' = l
                      /\ logged' = "cv_bridge"
                      /\ pc' = "returned"
               ELSE IF ResizeThrows(l, CropRows(d, Ratio(d, l)))
                 THEN /\ label_msg' = l
                      /\ logged' = "none"
                      /\ pc' = "crashed"
               ELSE /\ label_msg' =
                         ResizeNearest(l, CropRows(d, Ratio(d, l)), d.width, d.height)
                    /\ logged' = "none"
                    /\ pc' = "normalize"
  /\ UNCHANGED connVars

\* Lines 206-218: the label encoding is normalized.
Normalize ==
  /\ pc = "normalize"
  /\ IF NeedsConversion(label_msg.encoding)
       THEN /\ convAttempted' = TRUE
            /\ IF ToCvCopyThrows(label_msg, TYPE_32SC1)
                 THEN /\ logged' = "unsupported_label"
                      /\ pc' = "returned"
                      /\ UNCHANGED label_msg
                 ELSE /\ label_msg' = ToCvCopy(label_msg, TYPE_32SC1)
                      /\ pc' = "allocate"
                      /\ UNCHANGED logged
       ELSE /\ pc' = "allocate"
            /\ UNCHANGED << convAttempted, label_msg, logged >>
  /\ UNCHANGED << depth_msg, label_msg_in, info_msg, model_, cloud_msg, variant,
                  row, sent, nDelivered, nAccepted, nPublished >>
  /\ UNCHANGED connVars

\* Lines 220-260: the cloud is allocated and convert is selected.
Allocate ==
  /\ pc = "allocate"
  /\ cloud_msg' = AllocateCloud(depth_msg, label_msg_in)
  /\ variant' = Dispatch(depth_msg.encoding, label_msg.encoding)
  /\ row' = 0
  /\ IF variant' = NoVariant
       THEN logged' = "unsupported_depth" /\ pc' = "returned"
       ELSE pc' = "convert" /\ UNCHANGED logged
  /\ UNCHANGED << depth_msg, label_msg_in, info_msg, model_, label_msg,
                  convAttempted, sent, nDelivered, nAccepted, nPublished >>
  /\ UNCHANGED connVars

\* Lines 291-313: one pass of convert's outer loop fills row `row`.
ConvertRow ==
  /\ pc = "convert"
  /\ ~LoopDone
  /\ cloud_msg' =
       [cloud_msg EXCEPT
          !.points = @ \o [k \in 1 .. cloud_msg.width |->
                             ConvertPixel(variant, depth_msg, label_msg, model_,
                                          k - 1, row)]]
  /\ row' = row + 1
  /\ UNCHANGED << pc, depth_msg, label_msg_in, info_msg, model_, label_msg,
                  variant, convAttempted, sent, logged, nDelivered, nAccepted,
                  nPublished >>
  /\ UNCHANGED connVars

\* Line 262: convert has returned and the cloud is published.
Publish ==
  /\ pc = "convert"
  /\ LoopDone
  /\ sent' = Append(sent, cloud_msg)
  /\ nPublished' = nPublished + 1
  /\ pc' = "returned"
  /\ UNCHANGED << depth_msg, label_msg_in, info_msg, model_, label_msg,
                  cloud_msg, variant, row, convAttempted, logged, nDelivered,
                  nAccepted >>
  /\ UNCHANGED connVars

\* imageCb returns: its arguments and locals are gone, model_ stays.
ImageCbReturn ==
  /\ pc = "returned"
  /\ pc' = "idle"
  /\ depth_msg' = NoImage
  /\ label_msg_in' = NoImage
  /\ info_msg' = NoInfo
  /\ label_msg' = NoImage
  /\ cloud_msg' = NoCloud
  /\ variant' = NoVariant
  /\ row' = 0
  /\ convAttempted' = FALSE
  /\ sent' = << >>
  /\ logged' = "none"
  /\ UNCHANGED << model_, nDelivered, nAccepted, nPublished >>
  /\ UNCHANGED connVars

\* The synchronizer delivers a triple.
Deliver ==
  /\ pc = "idle"
  /\ \E dW \in 1 .. MaxDim, dH \in 1 .. MaxDim,
        lW \in 1 .. MaxDim, lH \in 1 .. MaxDim,
        dEnc \in DepthEncodings, lEnc \in LabelEncodings,
        dPat \in DepthPatterns, lPat \in LabelPatterns,
        lFrame \in FrameIds, i \in CameraInfos :
       ImageCbEnter(DepthImage("camera", dEnc, dW, dH, dPat),
                    LabelImage(lFrame, lEnc, lW, lH, lPat), i)

Next ==
  Deliver \/ Normalize \/ Allocate \/ ConvertRow \/ Publish \/ ImageCbReturn

Spec == Init /\ [][Next]_vars

\* ------------------------------------------------- onInit and connectCb

\* connect_mutex_: 0 when free, -1 when onInit holds it, else the thread.
InitHolder == -1

\* Mutant of CanLock: the lock is taken whoever holds it.
CanLock_NoMutex == TRUE

\* Lines 118 and 125: boost::lock_guard can take connect_mutex_.
CanLock == connect_mutex_ = 0

\* Mutant of Branch: the test of line 132 is inverted.
Branch_Inverted(count, subscribed) ==
  IF count = 0 THEN "unsub_depth"
  ELSE IF subscribed THEN "sub_depth"
  ELSE "unlock"

\* Lines 126-132: where connectCb goes for a consumer count and the state of
\* sub_depth_.getSubscriber().
Branch(count, subscribed) ==
  IF count = 0 THEN "unsub_depth"
  ELSE IF ~subscribed THEN "sub_depth"
  ELSE "unlock"

\* Line 126: pub_point_cloud_.getNumSubscribers(); a Publisher that was never
\* assigned reports no subscriber.
GetNumSubscribers == IF pub_point_cloud_ THEN numSubscribers ELSE 0

\* Line 118: onInit has set up the synchronizer and takes the mutex.
InitLock ==
  /\ initPc = "start"
  /\ CanLock
  /\ connect_mutex_' = InitHolder
  /\ initPc' = "locked"
  /\ UNCHANGED << advertised, pub_point_cloud_, numSubscribers, nNotified,
                  nTaken, cbPc, cbSeq, cbDone, sub_depth_, sub_label_, sub_info_ >>
  /\ UNCHANGED pipeVars

\* Line 119, the call: the topic is advertised, consumers can attach.
Advertise ==
  /\ initPc = "locked"
  /\ advertised' = TRUE
  /\ initPc' = "advertised"
  /\ UNCHANGED << pub_point_cloud_, numSubscribers, nNotified, nTaken, cbPc,
                  cbSeq, cbDone, connect_mutex_, sub_depth_, sub_label_,
                  sub_info_ >>
  /\ UNCHANGED pipeVars

\* Line 119, the assignment: pub_point_cloud_ holds the publisher.
AssignPublisher ==
  /\ initPc = "advertised"
  /\ pub_point_cloud_' = TRUE
  /\ initPc' = "assigned"
  /\ UNCHANGED << advertised, numSubscribers, nNotified, nTaken, cbPc, cbSeq,
                  cbDone, connect_mutex_, sub_depth_, sub_label_, sub_info_ >>
  /\ UNCHANGED pipeVars

\* Line 120: onInit returns and its lock_guard releases the mutex.
InitUnlock ==
  /\ initPc = "assigned"
  /\ connect_mutex_' = 0
  /\ initPc' = "done"
  /\ UNCHANGED << advertised, pub_point_cloud_, numSubscribers, nNotified,
                  nTaken, cbPc, cbSeq, cbDone, sub_depth_, sub_label_, sub_info_ >>
  /\ UNCHANGED pipeVars

\* Line 119, connect_cb: a consumer attaches to the advertised topic and the
\* host queues a call of connectCb.
Attach ==
  /\ advertised
  /\ numSubscribers < MaxConsumers
  /\ nNotified < MaxNotifs
  /\ numSubscribers' = numSubscribers + 1
  /\ nNotified' = nNotified + 1
  /\ UNCHANGED << initPc, advertised, pub_point_cloud_, nTaken, cbPc, cbSeq,
                  cbDone, connect_mutex_, sub_depth_, sub_label_, sub_info_ >>
  /\ UNCHANGED pipeVars

\* Line 119, connect_cb as the disconnect callback: a consumer detaches.
Detach ==
  /\ numSubscribers > 0
  /\ nNotified < MaxNotifs
  /\ numSubscribers' = numSubscribers - 1
  /\ nNotified' = nNotified + 1
  /\ UNCHANGED << initPc, advertised, pub_point_cloud_, nTaken, cbPc, cbSeq,
                  cbDone, connect_mutex_, sub_depth_, sub_label_, sub_info_ >>
  /\ UNCHANGED pipeVars

\* A step of connectCb on thread t that changes nothing but its position.
CbGoto(t, to) == cbPc' = [cbPc EXCEPT ![t] = to]

\* Line 123: a thread of the host takes the next queued notification and
\* enters connectCb.
CbStart(t) ==
  /\ cbPc[t] = "idle"
  /\ nTaken < nNotified
  /\ nTaken' = nTaken + 1
  /\ cbSeq' = [cbSeq EXCEPT ![t] = nTaken + 1]
  /\ CbGoto(t, "lock")
  /\ UNCHANGED << initPc, advertised, pub_point_cloud_, numSubscribers,
                  nNotified, cbDone, connect_mutex_, sub_depth_, sub_label_,
                  sub_info_ >>
  /\ UNCHANGED pipeVars

\* Line 125: connectCb takes the mutex.
CbLock(t) ==
  /\ cbPc[t] = "lock"
  /\ CanLock
  /\ connect_mutex_' = t
  /\ CbGoto(t, "read")
  /\ UNCHANGED << initPc, advertised, pub_point_cloud_, numSubscribers,
                  nNotified, nTaken, cbSeq, cbDone, sub_depth_, sub_label_,
                  sub_info_ >>
  /\ UNCHANGED pipeVars

\* Lines 126 and 132: connectCb reads the consumer count and picks its branch.
CbRead(t) ==
  /\ cbPc[t] = "read"
  /\ CbGoto(t, Branch(GetNumSubscribers, sub_depth_))
  /\ UNCHANGED << initPc, advertised, pub_point_cloud_, numSubscribers,
                  nNotified, nTaken, cbSeq, cbDone, connect_mutex_, sub_depth_,
                  sub_label_, sub_info_ >>
  /\ UNCHANGED pipeVars

\* Line 128: sub_depth_.unsubscribe().
CbUnsubDepth(t) ==
  /\ cbPc[t] = "unsub_depth"
  /\ sub_depth_' = FALSE
  /\ CbGoto(t, "unsub_label")
  /\ UNCHANGED << initPc, advertised, pub_point_cloud_, numSubscribers,
                  nNotified, nTaken, cbSeq, cbDone, connect_mutex_, sub_label_,
                  sub_info_ >>
  /\ UNCHANGED pipeVars

\* Line 129: sub_label_.unsubscribe().
CbUnsubLabel(t) ==
  /\ cbPc[t] = "unsub_label"
  /\ sub_label_' = FALSE
  /\ CbGoto(t, "unsub_info")
  /\ UNCHANGED << initPc, advertised, pub_point_cloud_, numSubscribers,
                  nNotified, nTaken, cbSeq, cbDone, connect_mutex_, sub_depth_,
                  sub_info_ >>
  /\ UNCHANGED pipeVars

\* Line 130: sub_info_.unsubscribe().
CbUnsubInfo(t) ==
  /\ cbPc[t] = "unsub_info"
  /\ sub_info_' = FALSE
  /\ CbGoto(t, "unlock")
  /\ UNCHANGED << initPc, advertised, pub_point_cloud_, numSubscribers,
                  nNotified, nTaken, cbSeq, cbDone, connect_mutex_, sub_depth_,
                  sub_label_ >>
  /\ UNCHANGED pipeVars

\* Lines 134-140: sub_depth_.subscribe(...).
CbSubDepth(t) ==
  /\ cbPc[t] = "sub_depth"
  /\ sub_depth_' = TRUE
  /\ CbGoto(t, "sub_label")
  /\ UNCHANGED << initPc, advertised, pub_point_cloud_, numSubscribers,
                  nNotified, nTaken, cbSeq, cbDone, connect_mutex_, sub_label_,
                  sub_info_ >>
  /\ UNCHANGED pipeVars

\* Lines 143-144: sub_label_.subscribe(...).
CbSubLabel(t) ==
  /\ cbPc[t] = "sub_label"
  /\ sub_label_' = TRUE
  /\ CbGoto(t, "sub_info")
  /\ UNCHANGED << initPc, advertised, pub_point_cloud_, numSubscribers,
                  nNotified, nTaken, cbSeq, cbDone, connect_mutex_, sub_depth_,
                  sub_info_ >>
  /\ UNCHANGED pipeVars

\* Line 145: sub_info_.subscribe(...).
CbSubInfo(t) ==
  /\ cbPc[t] = "sub_info"
  /\ sub_info_' = TRUE
  /\ CbGoto(t, "unlock")
  /\ UNCHANGED << initPc, advertised, pub_point_cloud_, numSubscribers,
                  nNotified, nTaken, cbSeq, cbDone, connect_mutex_, sub_depth_,
                  sub_label_ >>
  /\ UNCHANGED pipeVars

\* Line 147: connectCb returns and its lock_guard releases the mutex.
CbUnlock(t) ==
  /\ cbPc[t] = "unlock"
  /\ connect_mutex_' = 0
  /\ cbDone' = cbDone \cup {cbSeq[t]}
  /\ CbGoto(t, "idle")
  /\ UNCHANGED << initPc, advertised, pub_point_cloud_, numSubscribers,
                  nNotified, nTaken, cbSeq, sub_depth_, sub_label_, sub_info_ >>
  /\ UNCHANGED pipeVars

ConnectCb(t) ==
  \/ CbStart(t)
  \/ CbLock(t)
  \/ CbRead(t)
  \/ CbUnsubDepth(t)
  \/ CbUnsubLabel(t)
  \/ CbUnsubInfo(t)
  \/ CbSubDepth(t)
  \/ CbSubLabel(t)
  \/ CbSubInfo(t)
  \/ CbUnlock(t)

OnInit == InitLock \/ Advertise \/ AssignPublisher \/ InitUnlock

NextConn == OnInit \/ Attach \/ Detach \/ \E t \in Threads : ConnectCb(t)

SpecConn == Init /\ [][NextConn]_vars

\* ------------------------------------------------------- claims: pipeline

\* The depth sample type of a supported depth encoding.
DepthTypeOf(enc) == IF enc = TYPE_16UC1 THEN "uint16_t" ELSE "float"

\* The point of a cloud at row r, column c (row-major order).
PointAt(cloud, r, c) == cloud.points[r * cloud.width + c + 1]

\* imageCb has published a cloud and not yet returned.
Published == pc = "returned" /\ Len(sent) > 0

\* project(row, col, rawDepth, intrinsics) of the specification.
Project(m, T, depth, r, c) ==
  LET z == ToMeters(T, depth)
  IN  [x |-> FDiv(FMul(FSub(Fin(c, 1), m.cx), z), m.fx),
       y |-> FDiv(FMul(FSub(Fin(r, 1), m.cy), z), m.fy),
       z |-> z]

\* C1: in every published cloud, x, y and z of a pixel are all NaN exactly
\* when its depth sample is invalid or its label is negative; otherwise the
\* three are the projection of the pixel and none of them is NaN.
C1_NaNIffInvalid ==
  \A k \in 1 .. Len(sent) :
    \A p \in Pixels(depth_msg.width, depth_msg.height) :
      LET pt == PointAt(sent[k], p[1], p[2])
          depth == depth_msg.data[p]
          T == DepthTypeOf(depth_msg.encoding)
          bad == ~DepthValid(T, depth) \/ label_msg.data[p] < 0
          proj == Project(model_, T, depth, p[1], p[2])
      IN  /\ bad => IsNaN(pt.x) /\ IsNaN(pt.y) /\ IsNaN(pt.z)
          /\ ~bad => /\ ~IsNaN(pt.x) /\ ~IsNaN(pt.y) /\ ~IsNaN(pt.z)
                     /\ pt.x = proj.x /\ pt.y = proj.y /\ pt.z = proj.z

\* C1 witness: a published cloud with a pixel that is NaN only because its
\* label is negative, and another pixel with finite geometry.
C1_Witness ==
  /\ Published
  /\ \E p \in Pixels(depth_msg.width, depth_msg.height) :
       /\ DepthValid(DepthTypeOf(depth_msg.encoding), depth_msg.data[p])
       /\ label_msg.data[p] < 0
       /\ IsNaN(PointAt(sent[1], p[1], p[2]).x)
  /\ \E p \in Pixels(depth_msg.width, depth_msg.height) :
       ~IsNaN(PointAt(sent[1], p[1], p[2]).z)

\* C2: when imageCb is over, it has published exactly one cloud if the
\* triple met the acceptance conditions and none otherwise, so publishes and
\* accepted triples are equal in number, and every published cloud is full.
C2_PublishIffAccepted ==
  pc \in {"returned", "crashed"} =>
    /\ Len(sent) = (IF Accepted(depth_msg, label_msg_in) THEN 1 ELSE 0)
    /\ nPublished = nAccepted
    /\ \A k \in 1 .. Len(sent) :
         Len(sent[k].points) = sent[k].width * sent[k].height

\* C4: the cloud has the width and height of the depth frame, from its
\* allocation on, and a published cloud holds width * height points.
C4_CloudHasDepthDims ==
  /\ pc = "convert" =>
       cloud_msg.width = depth_msg.width /\ cloud_msg.height = depth_msg.height
  /\ \A k \in 1 .. Len(sent) :
       /\ sent[k].width = depth_msg.width
       /\ sent[k].height = depth_msg.height
       /\ Len(sent[k].points) = depth_msg.width * depth_msg.height

\* C4 witness: a cloud published for a label frame of other dimensions.
C4_Witness ==
  /\ Published
  /\ label_msg_in.width # depth_msg.width
  /\ label_msg_in.height # depth_msg.height

\* The value i mod 2^32 of a signed 32-bit i, as 16-bit halves.
Mod2To32(i) ==
  IF i >= 0
    THEN [hi |-> i \div 65536, lo |-> i % 65536]
    ELSE [hi |-> 65535 - ((-(i + 1)) \div 65536),
          lo |-> 65535 - ((-(i + 1)) % 65536)]

\* C5: in every published cloud the label field of every pixel, NaN or not,
\* is the label value at that position mod 2^32.
C5_LabelVerbatim ==
  \A k \in 1 .. Len(sent) :
    \A p \in Pixels(depth_msg.width, depth_msg.height) :
      LET pt == PointAt(sent[k], p[1], p[2])
      IN  /\ pt.label = Mod2To32(label_msg.data[p])
          /\ ~NeedsResize(depth_msg, label_msg_in) =>
               pt.label = Mod2To32(label_msg_in.data[p])

\* C5 witness: a published pixel with NaN geometry and the label -1, written
\* as 2^32 - 1.
C5_Witness ==
  /\ Published
  /\ \E p \in Pixels(depth_msg.width, depth_msg.height) :
       /\ label_msg_in.data[p] = -1
       /\ IsNaN(PointAt(sent[1], p[1], p[2]).x)
       /\ PointAt(sent[1], p[1], p[2]).label = [hi |-> 65535, lo |-> 65535]

\* The values in the first `rows` rows of a label image.
ValuesInRows(msg, rows) ==
  { msg.data[q] : q \in { q \in Pixels(msg.width, msg.height) : q[1] < rows } }

\* C6: the label image that leaves the resize step has the depth frame's
\* grid and holds only values of the first floor(Hd * Wl / Wd) rows of the
\* label image received when the dimensions differ, and is the label image
\* received when they are equal.
C6_ReconciledLabel ==
  pc = "normalize" =>
    IF NeedsResize(depth_msg, label_msg_in)
      THEN /\ label_msg.width = depth_msg.width
           /\ label_msg.height = depth_msg.height
           /\ DOMAIN label_msg.data = Pixels(depth_msg.width, depth_msg.height)
           /\ \A p \in DOMAIN label_msg.data :
                label_msg.data[p] \in
                  ValuesInRows(label_msg_in,
                    (depth_msg.height * label_msg_in.width) \div depth_msg.width)
      ELSE label_msg = label_msg_in

\* C6 witness: a label image resized from a crop that leaves rows out.
C6_Witness ==
  /\ pc = "normalize"
  /\ NeedsResize(depth_msg, label_msg_in)
  /\ (depth_msg.height * label_msg_in.width) \div depth_msg.width
       < label_msg_in.height

\* C8: no failure inside imageCb leaves it other than by a normal return, and
\* a call that logged an error has published nothing.
C8_FailuresAreLocal ==
  /\ pc # "crashed"
  /\ pc = "returned" /\ logged # "none" => sent = << >>

\* C9: toCvCopy is entered only for a label encoding other than 8UC1 and
\* 32SC1, and a published 8UC1 label frame was read by the 8-bit variant.
C9_NativePassThrough ==
  /\ convAttempted => label_msg_in.encoding \notin {TYPE_8UC1, TYPE_32SC1}
  /\ Published /\ label_msg_in.encoding = TYPE_8UC1 => variant.T2 = "uint8_t"

\* The intrinsics of a triple: those of its calibration message, times
\* Wd / Wl exactly when the depth and label dimensions differ.
IntrinsicsOf(d, l, i) ==
  IF d.width = l.width /\ d.height = l.height
    THEN i
    ELSE [fx |-> FDiv(FMul(i.fx, Fin(d.width, 1)), Fin(l.width, 1)),
          fy |-> FDiv(FMul(i.fy, Fin(d.width, 1)), Fin(l.width, 1)),
          cx |-> FDiv(FMul(i.cx, Fin(d.width, 1)), Fin(l.width, 1)),
          cy |-> FDiv(FMul(i.cy, Fin(d.width, 1)), Fin(l.width, 1))]

\* The geometry of the cloud of a triple, from the triple alone.
GeometryOf(d, l, i, labels) ==
  [k \in 1 .. d.width * d.height |->
     LET r == (k - 1) \div d.width
         c == (k - 1) % d.width
         T == DepthTypeOf(d.encoding)
     IN  IF ~DepthValid(T, d.data[<< r, c >>]) \/ labels[<< r, c >>] < 0
           THEN [x |-> NaN, y |-> NaN, z |-> NaN]
           ELSE Project(IntrinsicsOf(d, l, i), T, d.data[<< r, c >>], r, c)]

\* C10: whatever triples came before, the camera model imageCb works with
\* past the resize step is that of the triple's own calibration message,
\* scaled by Wd / Wl exactly when the dimensions differ, and the geometry of
\* the cloud it publishes is a function of the triple alone.
C10_NoCarryOver ==
  /\ pc \in {"normalize", "allocate", "convert"} \/ Published =>
       model_ = IntrinsicsOf(depth_msg, label_msg_in, info_msg)
  /\ Published =>
       [k \in 1 .. Len(sent[1].points) |->
          [x |-> sent[1].points[k].x, y |-> sent[1].points[k].y,
           z |-> sent[1].points[k].z]]
         = GeometryOf(depth_msg, label_msg_in, info_msg, label_msg.data)

\* C10 witness: a cloud of a triple that was not resized, published after an
\* earlier triple that was dropped.
C10_Witness ==
  /\ Published
  /\ nDelivered = 2
  /\ nPublished = 1
  /\ ~NeedsResize(depth_msg, label_msg_in)

\* ----------------------------------------------------- claims: connection

AllActive == sub_depth_ /\ sub_label_ /\ sub_info_

AllInactive == ~sub_depth_ /\ ~sub_label_ /\ ~sub_info_

\* connectCb has completed for the latest notification.
LatestHandled == nNotified > 0 /\ nNotified \in cbDone

\* The subscriptions follow the consumer count.
C3_FollowsDemand ==
  /\ nNotified = 0 => AllInactive
  /\ LatestHandled /\ numSubscribers > 0 => AllActive
  /\ LatestHandled /\ numSubscribers = 0 => AllInactive

\* A connectCb that finds consumers present and the subscriptions active goes
\* straight to its end, and its end changes no subscription.
C3_NoOpStep ==
  \A t \in Threads :
    /\ cbPc[t] = "read" /\ cbPc'[t] # "read" /\ GetNumSubscribers > 0 /\ AllActive
         => cbPc'[t] = "unlock"
    /\ cbPc[t] = "unlock" /\ cbPc'[t] # "unlock"
         => UNCHANGED << sub_depth_, sub_label_, sub_info_ >>

\* C3: no input subscription is active before the first notification; once
\* connectCb has completed for the latest attach/detach notification, the
\* three subscriptions are all active if a consumer is attached and all
\* inactive if none is; a connectCb run that finds consumers present and the
\* subscriptions active leaves them as they are.
C3_DemandDriven == []C3_FollowsDemand /\ [][C3_NoOpStep]_vars

\* C3 witness: the third notification has been handled, a consumer is
\* attached and the three subscriptions are active.
C3_Witness ==
  /\ nNotified = 3
  /\ LatestHandled
  /\ numSubscribers > 0
  /\ AllActive

\* The threads inside connectCb's critical section, and onInit inside its own.
CbInside == { t \in Threads : cbPc[t] \notin {"idle", "lock"} }

InitInside == initPc \in {"locked", "advertised", "assigned"}

\* C7: at most one of onInit's advertise-and-assign and the connectCb bodies
\* is executing; a connectCb reads the consumer count only once the
\* publisher is assigned; a connectCb finds and leaves the three
\* subscriptions all active or all inactive.
C7_MutualExclusion ==
  /\ Cardinality(CbInside) + (IF InitInside THEN 1 ELSE 0) <= 1
  /\ \A t \in Threads : cbPc[t] = "read" => pub_point_cloud_
  /\ \A t \in Threads :
       cbPc[t] \in {"read", "unlock"} => AllActive \/ AllInactive

\* C7 witness: one connectCb stands between its subscribe calls, only the
\* depth subscription active, while another waits for the mutex.
C7_Witness ==
  \E t, u \in Threads :
    /\ cbPc[t] = "sub_label"
    /\ cbPc[u] = "lock"
    /\ sub_depth_ /\ ~sub_label_

====
